---- MODULE Spec2Model ----
(***************************************************************************)
(* Model of the transcript summarization pipeline of study-backend:        *)
(*   src/src/api/session/controller.ts  generateExtractiveSummary,         *)
(*                                      summarizeWithGemini,               *)
(*                                      uploadTranscript, getSummary       *)
(*   src/src/api/transcription.ts       POST /transcribe                   *)
(*                                                                         *)
(* A JavaScript string is a sequence of one-character strings.  A text     *)
(* field that is null/undefined is Null; an enum or short-code field that  *)
(* is null/undefined is Unset.                                             *)
(***************************************************************************)
EXTENDS Integers, Sequences, FiniteSets, TLC

\* ------------------------------------------------------------------ bounds
\* Longest transcript fragment a request carries.
MaxFragLen == 1
\* Longest text handed to generateExtractiveSummary on its own.
MaxTextLen == 4
\* Largest |maxSentences| handed to generateExtractiveSummary on its own.
MaxSentArg == 3

\* ------------------------------------------------------------ JS values
Null == <<"null">>
Unset == "unset"

IsText(v) == v # Null

\* Truthiness of a string-or-null value: null, undefined and "" are falsy.
Truthy(v) == v # Null /\ v # <<>>

\* ------------------------------------------------------- character classes
\* \s of a JavaScript regular expression, and what String.prototype.trim removes.
WhiteSpace == {" ", "\t", "\n", "\r"}

\* [.!?]
Terminators == {".", "!", "?"}

UpperCase == <<"A","B","C","D","E","F","G","H","I","J","K","L","M",
               "N","O","P","Q","R","S","T","U","V","W","X","Y","Z">>

LowerCase == <<"a","b","c","d","e","f","g","h","i","j","k","l","m",
               "n","o","p","q","r","s","t","u","v","w","x","y","z">>

Digits == {"0","1","2","3","4","5","6","7","8","9"}

\* [a-zA-Z0-9']
WordChars == {UpperCase[i] : i \in 1..26} \cup {LowerCase[i] : i \in 1..26}
             \cup Digits \cup {"'"}

toLowerCaseChar(c) ==
    IF \E i \in 1..26 : UpperCase[i] = c
    THEN LowerCase[CHOOSE i \in 1..26 : UpperCase[i] = c]
    ELSE c

toLowerCase(s) == [i \in 1..Len(s) |-> toLowerCaseChar(s[i])]

\* --------------------------------------------------------- string helpers
\* Length of the longest prefix of s whose characters are all in (inSet = TRUE)
\* or all outside (inSet = FALSE) the class cls.
RECURSIVE RunLen(_, _, _)
RunLen(s, cls, inSet) ==
    IF s = <<>> \/ ((Head(s) \in cls) # inSet) THEN 0
    ELSE 1 + RunLen(Tail(s), cls, inSet)

Drop(s, n) == SubSeq(s, n + 1, Len(s))
Take(s, n) == SubSeq(s, 1, n)

\* String.prototype.trim
trim(s) ==
    LET lead == RunLen(s, WhiteSpace, TRUE)
        rest == Drop(s, lead)
        rev == [i \in 1..Len(rest) |-> rest[Len(rest) + 1 - i]]
        trail == RunLen(rev, WhiteSpace, TRUE)
    IN  Take(rest, Len(rest) - trail)

\* text.replace(/\s+/g, " ")
RECURSIVE CollapseWhitespace(_)
CollapseWhitespace(s) ==
    IF s = <<>> THEN <<>>
    ELSE IF Head(s) \in WhiteSpace
         THEN <<" ">> \o CollapseWhitespace(Drop(s, RunLen(s, WhiteSpace, TRUE)))
         ELSE <<Head(s)>> \o CollapseWhitespace(Tail(s))

\* s.match(/[^.!?]+[.!?]+/g): the successive leftmost matches; <<>> stands for
\* the null that match returns when there is none.
RECURSIVE MatchSentences(_)
MatchSentences(s) ==
    IF s = <<>> THEN <<>>
    ELSE LET body == RunLen(s, Terminators, FALSE)
             term == RunLen(Drop(s, body), Terminators, TRUE)
         IN  IF body = 0 THEN MatchSentences(Tail(s))
             ELSE IF term = 0 THEN <<>>
             ELSE <<Take(s, body + term)>> \o MatchSentences(Drop(s, body + term))

\* s.match(/[a-zA-Z0-9']+/g) || []
RECURSIVE MatchWords(_)
MatchWords(s) ==
    IF s = <<>> THEN <<>>
    ELSE LET w == RunLen(s, WordChars, TRUE)
         IN  IF w = 0 THEN MatchWords(Tail(s))
             ELSE <<Take(s, w)>> \o MatchWords(Drop(s, w))

\* parts.join(" ")
RECURSIVE JoinSpace(_)
JoinSpace(parts) ==
    IF parts = <<>> THEN <<>>
    ELSE IF Len(parts) = 1 THEN parts[1]
    ELSE parts[1] \o <<" ">> \o JoinSpace(Tail(parts))

\* ------------------------------------------------ generateExtractiveSummary
stop == { <<"t","h","e">>, <<"i","s">>, <<"i","n">>, <<"a","t">>, <<"o","f">>,
          <<"a">>, <<"a","n">>, <<"a","n","d">>, <<"o","r">>, <<"t","o">>,
          <<"f","o","r">>, <<"o","n">>, <<"w","i","t","h">>, <<"a","s">>,
          <<"b","y">>, <<"i","t">>, <<"t","h","i","s">>, <<"t","h","a","t">>,
          <<"f","r","o","m">>, <<"a","r","e">>, <<"b","e">>, <<"w","a","s">>,
          <<"w","e","r","e">>, <<"w","i","l","l">>, <<"c","a","n">>,
          <<"c","o","u","l","d">> }

\* freq[w] || 0 for the table built from the words of the whole text.
Freq(words, w) ==
    IF w \in stop THEN 0
    ELSE Cardinality({i \in 1..Len(words) : words[i] = w})

RECURSIVE SumFreq(_, _)
SumFreq(words, sw) ==
    IF sw = <<>> THEN 0 ELSE Freq(words, Head(sw)) + SumFreq(words, Tail(sw))

Max(a, b) == IF a >= b THEN a ELSE b
Min(a, b) == IF a <= b THEN a ELSE b

\* score / Math.max(5, sw.length), kept as the fraction num/den.
Score(words, s) ==
    LET sw == MatchWords(toLowerCase(s))
    IN  [num |-> SumFreq(words, sw), den |-> Max(5, Len(sw))]

\* a.score > b.score
ScoreGreater(a, b) == a.score.num * b.score.den > b.score.num * a.score.den

\* Variant: an unstable sort, an element goes before the elements of equal score.
RECURSIVE InsertByScore_TiesFirst(_, _)
InsertByScore_TiesFirst(sorted, e) ==
    IF sorted = <<>> THEN <<e>>
    ELSE IF ~ScoreGreater(Head(sorted), e) THEN <<e>> \o sorted
    ELSE <<Head(sorted)>> \o InsertByScore_TiesFirst(Tail(sorted), e)

\* indexed.sort((a, b) => b.score - a.score): Array.prototype.sort is stable, so
\* an element goes behind every element whose score is not smaller.
RECURSIVE InsertByScore(_, _)
InsertByScore(sorted, e) ==
    IF sorted = <<>> THEN <<e>>
    ELSE IF ScoreGreater(e, Head(sorted)) THEN <<e>> \o sorted
    ELSE <<Head(sorted)>> \o InsertByScore(Tail(sorted), e)

RECURSIVE SortByScore(_)
SortByScore(arr) ==
    IF arr = <<>> THEN <<>>
    ELSE InsertByScore(SortByScore(Take(arr, Len(arr) - 1)), arr[Len(arr)])

\* .sort((a, b) => a.i - b.i)
RECURSIVE InsertByIndex(_, _)
InsertByIndex(sorted, e) ==
    IF sorted = <<>> THEN <<e>>
    ELSE IF e.i < Head(sorted).i THEN <<e>> \o sorted
    ELSE <<Head(sorted)>> \o InsertByIndex(Tail(sorted), e)

RECURSIVE SortByIndex(_)
SortByIndex(arr) ==
    IF arr = <<>> THEN <<>>
    ELSE InsertByIndex(SortByIndex(Take(arr, Len(arr) - 1)), arr[Len(arr)])

\* Array.prototype.slice(0, end): a negative end counts from the end of the array.
SliceFromStart(arr, end) ==
    LET final == IF end < 0 THEN Max(Len(arr) + end, 0) ELSE Min(end, Len(arr))
    IN  Take(arr, final)

\* text.replace(/\s+/g, " ").match(/[^.!?]+[.!?]+/g) || [text]
Sentences(text) ==
    LET m == MatchSentences(CollapseWhitespace(text))
    IN  IF m = <<>> THEN <<text>> ELSE m

\* indexed.sort(...) by score
Indexed(text) ==
    LET sentences == Sentences(text)
        words == MatchWords(toLowerCase(text))
    IN  [i \in 1..Len(sentences) |->
            [s |-> sentences[i], i |-> i, score |-> Score(words, sentences[i])]]

\* Variant: the selected sentences stay in score order.
Top_ScoreOrder(text, maxSentences) ==
    LET indexed == SortByScore(Indexed(text))
    IN  SliceFromStart(indexed, Min(maxSentences, Len(indexed)))

\* indexed.slice(0, Math.min(maxSentences, indexed.length)).sort(by i)
Top(text, maxSentences) ==
    LET indexed == SortByScore(Indexed(text))
    IN  SortByIndex(SliceFromStart(indexed, Min(maxSentences, Len(indexed))))

generateExtractiveSummary(text, maxSentences) ==
    IF text = <<>> THEN <<>>
    ELSE LET top == Top(text, maxSentences)
         IN  JoinSpace([k \in 1..Len(top) |-> trim(top[k].s)])


\* ----------------------------------------------------- summarizeWithGemini
maxChars == 16000

\* Variant: the head of the transcript is kept, transcript.slice(0, maxChars).
GeminiInput_Head(transcript) ==
    IF Len(transcript) > maxChars
    THEN SubSeq(transcript, 1, maxChars)
    ELSE transcript

\* transcript.length > maxChars ? transcript.slice(-maxChars) : transcript
GeminiInput(transcript) ==
    IF Len(transcript) > maxChars
    THEN SubSeq(transcript, Len(transcript) - maxChars + 1, Len(transcript))
    ELSE transcript

\* What the environment does to one call: is GEMINI_API_KEY set, does fetch
\* reject, is the response ok, does resp.json() parse, and the value found at
\* candidates[0].content.parts[0].text (Null when it is absent or no string).
GeminiTexts == {Null, <<>>, <<" ">>, <<"S">>, <<" ", "S", "\n">>}

GeminiOutcomes ==
    {[kind |-> k, text |-> Null] : k \in {"no_key", "network_error", "not_ok", "bad_json"}}
    \cup {[kind |-> "body", text |-> t] : t \in GeminiTexts}

\* Variant: the catch block lets the exception through.
summarizeWithGemini_Rethrow(transcript, o) ==
    IF o.kind \in {"network_error", "bad_json"} THEN [raised |-> TRUE, value |-> Null]
    ELSE IF o.kind \in {"no_key", "not_ok"} THEN [raised |-> FALSE, value |-> Null]
    ELSE IF IsText(o.text) /\ Len(trim(o.text)) > 0
         THEN [raised |-> FALSE, value |-> trim(o.text)]
         ELSE [raised |-> FALSE, value |-> Null]

\* The result of the call: raised tells whether the promise rejects, value is
\* the string or Null it resolves to.
summarizeWithGemini(transcript, o) ==
    LET thrown == o.kind \in {"network_error", "bad_json"}
    IN  IF o.kind = "no_key" THEN [raised |-> FALSE, value |-> Null]
        ELSE IF thrown THEN [raised |-> FALSE, value |-> Null]
        ELSE IF o.kind = "not_ok" THEN [raised |-> FALSE, value |-> Null]
        ELSE IF IsText(o.text) /\ Len(trim(o.text)) > 0
             THEN [raised |-> FALSE, value |-> trim(o.text)]
             ELSE [raised |-> FALSE, value |-> Null]

\* ------------------------------------------------------------------ state
VARIABLES
    session,    \* the stored Session record: transcript, transcriptLang, summary, summaryStatus
    pc,         \* where each request's handler stands
    req,        \* each request as received
    loc,        \* each handler's local constants
    res,        \* each request's response
    call        \* a direct call of generateExtractiveSummary: arguments and result

vars == <<session, pc, req, loc, res, call>>

\* The requests of one run, numbered in their order of arrival; two of them
\* give every interleaving of a pair of handlers.
Reqs == {1, 2}

\* The one session of the store, and an id no session has.
SessionId == "s1"
SessionIds == {SessionId, "s0"}

\* req.user: absent, a member of the session's group, and a non-member.
memberIds == {"u1"}
Users == {Unset, "u1", "u2"}

Langs == {Unset, "en"}

FragAlphabet == {"b", ".", " "}
StringsUpTo(alphabet, n) == UNION {[1..k -> alphabet] : k \in 0..n}

\* Transcript fragments that pass z.string().min(1).
Fragments == StringsUpTo(FragAlphabet, MaxFragLen) \ {<<>>}

\* req.body.transcript: missing, empty, or a fragment.
BodyTranscripts == {Null, <<>>} \cup Fragments

UploadRequests ==
    [kind : {"upload"}, user : Users, sessionId : SessionIds,
     transcript : BodyTranscripts, lang : Langs]

GetRequests ==
    [kind : {"get"}, user : Users, sessionId : SessionIds,
     transcript : {Null}, lang : {Unset}]

NoRequest == [kind |-> "none", user |-> Unset, sessionId |-> "s0",
              transcript |-> Null, lang |-> Unset]

NoSession == [transcript |-> Null, transcriptLang |-> Unset,
              summary |-> Null, summaryStatus |-> Unset]

\* session: the record getSummary read; existingTranscript: the transcript of
\* the record uploadTranscript read (the one field of it the handler uses).
NoLocals == [session |-> NoSession, existingTranscript |-> Null,
             mergedTranscript |-> Null, llmSummary |-> Null, summary |-> Null]

NoResponse == [code |-> 0]

NoCall == [text |-> <<>>, maxSentences |-> 0, state |-> "none", result |-> <<>>]

\* A session as createSession leaves it: none of the four fields is set.
Init ==
    /\ session = NoSession
    /\ pc = [p \in Reqs |-> "idle"]
    /\ req = [p \in Reqs |-> NoRequest]
    /\ loc = [p \in Reqs |-> NoLocals]
    /\ res = [p \in Reqs |-> NoResponse]
    /\ call = NoCall

\* Requests are numbered in the order they arrive: p is the next one.
Arrives(p) == pc[p] = "idle" /\ \A q \in 1..(p - 1) : pc[q] # "idle"

\* res.status(..).json(r) and return: the handler's frame is gone.
Respond(p, r) ==
    /\ res' = [res EXCEPT ![p] = r]
    /\ pc' = [pc EXCEPT ![p] = "done"]
    /\ req' = [req EXCEPT ![p] = NoRequest]
    /\ loc' = [loc EXCEPT ![p] = NoLocals]

\* The handler awaits its next step.
Goto(p, label, r, l) ==
    /\ pc' = [pc EXCEPT ![p] = label]
    /\ req' = [req EXCEPT ![p] = r]
    /\ loc' = [loc EXCEPT ![p] = l]
    /\ UNCHANGED res

\* ------------------------------------------------------- uploadTranscript
\* bodySchema.safeParse(req.body).success
ValidBody(r) == IsText(r.transcript) /\ Len(r.transcript) >= 1

\* Variant: the fragments are joined without the newline.
mergedTranscript_NoSeparator(existingTranscript, transcript) ==
    IF Truthy(existingTranscript)
    THEN existingTranscript \o transcript
    ELSE transcript

\* existingTranscript ? existingTranscript + "\n" + transcript : transcript
mergedTranscript(existingTranscript, transcript) ==
    IF Truthy(existingTranscript)
    THEN existingTranscript \o <<"\n">> \o transcript
    ELSE transcript

\* Entry up to the first await: the 401 and 400 exits.
uploadStart(p, r) ==
    /\ Arrives(p)
    /\ IF r.user = Unset
       THEN Respond(p, [code |-> 401, message |-> "Unauthorized"])
       ELSE IF ~ValidBody(r)
       THEN Respond(p, [code |-> 400, message |-> "Invalid payload"])
       ELSE Goto(p, "upload_findSession", r, loc[p])
    /\ UNCHANGED <<session, call>>

\* db.session.findUnique resolves: the 404 exit, else the handler holds the
\* session as read now.
uploadFindSession(p) ==
    /\ pc[p] = "upload_findSession"
    /\ IF req[p].sessionId # SessionId
       THEN Respond(p, [code |-> 404, message |-> "Session not found"])
       ELSE Goto(p, "upload_findGroup", req[p],
                 [loc[p] EXCEPT !.existingTranscript = session.transcript])
    /\ UNCHANGED <<session, call>>

\* Variant: the membership check is missing.
uploadFindGroup_NoCheck(p) ==
    /\ pc[p] = "upload_findGroup"
    /\ Goto(p, "upload_markPending", req[p],
            [loc[p] EXCEPT !.mergedTranscript =
                mergedTranscript(loc[p].existingTranscript, req[p].transcript)])
    /\ UNCHANGED <<session, call>>

\* Variant: the summarization starts without the first update.
uploadFindGroup_SkipPending(p) ==
    /\ pc[p] = "upload_findGroup"
    /\ IF req[p].user \notin memberIds
       THEN Respond(p, [code |-> 403, message |-> "Forbidden"])
       ELSE Goto(p, "upload_summarize", req[p],
                 [loc[p] EXCEPT !.mergedTranscript =
                     mergedTranscript(loc[p].existingTranscript, req[p].transcript)])
    /\ UNCHANGED <<session, call>>

\* db.group.findFirst resolves: the 403 exit, else the merge.
uploadFindGroup(p) ==
    /\ pc[p] = "upload_findGroup"
    /\ IF req[p].user \notin memberIds
       THEN Respond(p, [code |-> 403, message |-> "Forbidden"])
       ELSE Goto(p, "upload_markPending", req[p],
                 [loc[p] EXCEPT !.mergedTranscript =
                     mergedTranscript(loc[p].existingTranscript, req[p].transcript)])
    /\ UNCHANGED <<session, call>>

\* Variant: the first update writes the transcript but no status.
uploadMarkPending_KeepStatus(p) ==
    /\ pc[p] = "upload_markPending"
    /\ session' = [session EXCEPT
                      !.transcript = loc[p].mergedTranscript,
                      !.transcriptLang = IF req[p].lang = Unset THEN @ ELSE req[p].lang]
    /\ Goto(p, "upload_summarize", req[p], loc[p])
    /\ UNCHANGED call

\* Variant: the first update also clears the summary.
uploadMarkPending_ClearsSummary(p) ==
    /\ pc[p] = "upload_markPending"
    /\ session' = [session EXCEPT
                      !.transcript = loc[p].mergedTranscript,
                      !.summary = Null,
                      !.summaryStatus = "pending",
                      !.transcriptLang = IF req[p].lang = Unset THEN @ ELSE req[p].lang]
    /\ Goto(p, "upload_summarize", req[p], loc[p])
    /\ UNCHANGED call

\* The first db.session.update: a field given as undefined is left as stored.
uploadMarkPending(p) ==
    /\ pc[p] = "upload_markPending"
    /\ session' = [session EXCEPT
                      !.transcript = loc[p].mergedTranscript,
                      !.summaryStatus = "pending",
                      !.transcriptLang = IF req[p].lang = Unset THEN @ ELSE req[p].lang]
    /\ Goto(p, "upload_summarize", req[p], loc[p])
    /\ UNCHANGED call

\* Variant: without a remote summary the transcript itself is the summary.
SummaryOf_RawTranscript(llmSummary, merged) ==
    IF Truthy(llmSummary) THEN llmSummary ELSE merged

\* llmSummary || generateExtractiveSummary(mergedTranscript, 5)
SummaryOf(llmSummary, merged) ==
    IF Truthy(llmSummary) THEN llmSummary ELSE generateExtractiveSummary(merged, 5)

\* summarizeWithGemini settles and the summary is chosen; a rejection would
\* reach the handler's catch.
uploadSummarize(p, o) ==
    /\ pc[p] = "upload_summarize"
    /\ LET r == summarizeWithGemini(loc[p].mergedTranscript, o)
       IN  IF r.raised
           THEN Respond(p, [code |-> 500, message |-> "Failed to save transcript"])
           ELSE Goto(p, "upload_markCompleted", req[p],
                     [loc[p] EXCEPT !.llmSummary = r.value,
                                    !.summary = SummaryOf(r.value, loc[p].mergedTranscript)])
    /\ UNCHANGED <<session, call>>

\* Variant: the second update writes the summary but no status.
uploadMarkCompleted_SummaryOnly(p) ==
    /\ pc[p] = "upload_markCompleted"
    /\ session' = [session EXCEPT !.summary = loc[p].summary]
    /\ Respond(p, [code |-> 200, message |-> "Transcript saved", summary |-> loc[p].summary])
    /\ UNCHANGED call

\* The second db.session.update, then the 200 response.
uploadMarkCompleted(p) ==
    /\ pc[p] = "upload_markCompleted"
    /\ session' = [session EXCEPT !.summary = loc[p].summary,
                                  !.summaryStatus = "completed"]
    /\ Respond(p, [code |-> 200, message |-> "Transcript saved", summary |-> loc[p].summary])
    /\ UNCHANGED call

\* ------------------------------------------------------------- getSummary
\* v || null
OrNull(v) == IF Truthy(v) THEN v ELSE Null

\* Variant: no fallback to "completed" for a summary without a status.
getSummaryBody_NoFallback(s) ==
    [transcript |-> OrNull(s.transcript),
     summary |-> OrNull(s.summary),
     status |-> IF s.summaryStatus # Unset /\ s.summaryStatus # ""
                THEN s.summaryStatus ELSE "not_available",
     lang |-> IF s.transcriptLang # Unset /\ s.transcriptLang # ""
              THEN s.transcriptLang ELSE Unset]

\* The body of the 200 response for a session record s.
getSummaryBody(s) ==
    [transcript |-> OrNull(s.transcript),
     summary |-> OrNull(s.summary),
     status |-> IF s.summaryStatus # Unset /\ s.summaryStatus # ""
                THEN s.summaryStatus
                ELSE IF Truthy(s.summary) THEN "completed" ELSE "not_available",
     lang |-> IF s.transcriptLang # Unset /\ s.transcriptLang # ""
              THEN s.transcriptLang ELSE Unset]

getStart(p, r) ==
    /\ Arrives(p)
    /\ IF r.user = Unset
       THEN Respond(p, [code |-> 401, message |-> "Unauthorized"])
       ELSE Goto(p, "get_findSession", r, loc[p])
    /\ UNCHANGED <<session, call>>

getFindSession(p) ==
    /\ pc[p] = "get_findSession"
    /\ IF req[p].sessionId # SessionId
       THEN Respond(p, [code |-> 404, message |-> "Session not found"])
       ELSE Goto(p, "get_findGroup", req[p], [loc[p] EXCEPT !.session = session])
    /\ UNCHANGED <<session, call>>

getFindGroup(p) ==
    /\ pc[p] = "get_findGroup"
    /\ IF req[p].user \notin memberIds
       THEN Respond(p, [code |-> 403, message |-> "Forbidden"])
       ELSE Respond(p, [code |-> 200, body |-> getSummaryBody(loc[p].session)])
    /\ UNCHANGED <<session, call>>

\* ------------------------------------------------------ POST /transcribe
\* What Deepgram does to one call: fetch rejects, the response is not ok, the
\* body does not parse, or the transcript found in it (Null when absent).
DeepgramTranscripts == {Null, <<>>, <<"b">>, <<"b", ".">>}

DeepgramOutcomes ==
    {[kind |-> k, transcript |-> Null] : k \in {"network_error", "not_ok", "bad_json"}}
    \cup {[kind |-> "body", transcript |-> t] : t \in DeepgramTranscripts}

\* What the Gemini SDK does to one call: generateContent rejects, response.text()
\* throws (a blocked response), or the text it returns, which is "" when the
\* response has no candidate text.
SdkTexts == {<<>>, <<" ">>, <<"S">>}

SdkOutcomes ==
    {[kind |-> k, text |-> Null] : k \in {"generate_error", "text_error"}}
    \cup {[kind |-> "text", text |-> t] : t \in SdkTexts}

\* process.env.DEEPGRAM_API_KEY, process.env.GEMINI_API_KEY and req.file, each
\* present or not.
TranscribeRequests ==
    [kind : {"transcribe"}, deepgramKey : BOOLEAN, geminiKey : BOOLEAN, file : BOOLEAN]

ServerError == [code |-> 500, error |-> "Server error"]

\* Entry up to the first await: the configuration and upload checks.
transcribeStart(p, r) ==
    /\ Arrives(p)
    /\ IF ~r.deepgramKey
       THEN Respond(p, [code |-> 500, error |-> "Missing DEEPGRAM_API_KEY"])
       ELSE IF ~r.geminiKey
       THEN Respond(p, [code |-> 500, error |-> "Missing GEMINI_API_KEY"])
       ELSE IF ~r.file
       THEN Respond(p, [code |-> 400, error |-> "No audio file uploaded"])
       ELSE Goto(p, "transcribe_deepgram", NoRequest, loc[p])
    /\ UNCHANGED <<session, call>>

\* dgJson?.results?.channels?.[0]?.alternatives?.[0]?.transcript || ""
DeepgramTranscript(o) == IF Truthy(o.transcript) THEN o.transcript ELSE <<>>

\* The Deepgram call settles.
transcribeDeepgram(p, o) ==
    /\ pc[p] = "transcribe_deepgram"
    /\ IF o.kind \in {"network_error", "bad_json"}
       THEN Respond(p, ServerError)
       ELSE IF o.kind = "not_ok"
       THEN Respond(p, [code |-> 502, error |-> "Deepgram error"])
       ELSE Goto(p, "transcribe_gemini", req[p],
                 [loc[p] EXCEPT !.mergedTranscript = DeepgramTranscript(o)])
    /\ UNCHANGED <<session, call>>

\* model.generateContent settles and the response is sent.
transcribeGemini(p, o) ==
    /\ pc[p] = "transcribe_gemini"
    /\ IF o.kind \in {"generate_error", "text_error"}
       THEN Respond(p, ServerError)
       ELSE Respond(p, [code |-> 200, transcript |-> loc[p].mergedTranscript,
                        summary |-> o.text])
    /\ UNCHANGED <<session, call>>

\* ------------------------------------------------------ the store failing
DbLabels == {"upload_findSession", "upload_findGroup", "upload_markPending",
             "upload_markCompleted", "get_findSession", "get_findGroup"}

UploadLabels == {"upload_findSession", "upload_findGroup", "upload_markPending",
                 "upload_summarize", "upload_markCompleted"}

\* Variant: the catch block also takes the status back.
dbReject_ResetsStatus(p) ==
    /\ pc[p] \in DbLabels
    /\ Respond(p, [code |-> 500,
                   message |-> IF pc[p] \in UploadLabels
                               THEN "Failed to save transcript"
                               ELSE "Failed to fetch summary"])
    /\ session' = [session EXCEPT !.summaryStatus = Unset]
    /\ UNCHANGED call

\* The pending store call rejects without effect: the handler's catch answers.
dbReject(p) ==
    /\ pc[p] \in DbLabels
    /\ Respond(p, [code |-> 500,
                   message |-> IF pc[p] \in UploadLabels
                               THEN "Failed to save transcript"
                               ELSE "Failed to fetch summary"])
    /\ UNCHANGED <<session, call>>

\* ------------------------------------- generateExtractiveSummary, called
SummAlphabet == {"a", "b", "B", ".", " "}

Calls ==
    [text : StringsUpTo(SummAlphabet, MaxTextLen),
     maxSentences : (0 - MaxSentArg)..MaxSentArg,
     state : {"called"}, result : {<<>>}]

summReturn ==
    /\ call.state = "called"
    /\ call' = [call EXCEPT !.state = "returned",
                            !.result = generateExtractiveSummary(call.text, call.maxSentences)]
    /\ UNCHANGED <<session, pc, req, loc, res>>

\* ------------------------------------------- summarizeWithGemini, called
\* Transcripts around the limit: n characters, the first h of them "h" and the
\* others "t", so that the head and the tail of a transcript differ.
MaxOver == 8

TranscriptLengths == (0..MaxOver) \cup ((maxChars - MaxOver)..(maxChars + MaxOver))

LongTranscript(n, h) == [i \in 1..n |-> IF i <= h THEN "h" ELSE "t"]

GeminiCalls ==
    {[text |-> LongTranscript(n, h), maxSentences |-> 0,
      state |-> "gemini_called", result |-> Null] :
        n \in TranscriptLengths, h \in 0..MaxOver}

\* Up to the fetch: nothing is sent without GEMINI_API_KEY; otherwise the
\* request text is the fixed instruction followed by input, and result holds
\* input.
geminiSend(apiKey) ==
    /\ call.state = "gemini_called"
    /\ call' = IF apiKey
               THEN [call EXCEPT !.state = "sent", !.result = GeminiInput(call.text)]
               ELSE [call EXCEPT !.state = "not_sent"]
    /\ UNCHANGED <<session, pc, req, loc, res>>

\* --------------------------------------------------------- specifications
\* Requests to the session endpoints, in any interleaving.
Next ==
    \E p \in Reqs :
        \/ \E r \in UploadRequests : uploadStart(p, r)
        \/ uploadFindSession(p)
        \/ uploadFindGroup(p)
        \/ uploadMarkPending(p)
        \/ \E o \in GeminiOutcomes : uploadSummarize(p, o)
        \/ uploadMarkCompleted(p)
        \/ \E r \in GetRequests : getStart(p, r)
        \/ getFindSession(p)
        \/ getFindGroup(p)

Spec == Init /\ [][Next]_vars

\* The same, the store's calls failing at will.
NextFault == Next \/ \E p \in Reqs : dbReject(p)

SpecFault == Init /\ [][NextFault]_vars

\* A reliable store and a remote call that settles: an awaited update of the
\* store resolves and the handler goes on, and fetch resolves or rejects (the
\* fallback that follows is synchronous).  Every outcome of the call is enabled
\* exactly while the handler waits for it and every outcome ends the wait, so
\* weak fairness of the call is stated on the outcomes that bring a summary:
\* it excludes the behaviours that wait forever, and no others.
SummaryOutcomes == {o \in GeminiOutcomes : Truthy(summarizeWithGemini(<<>>, o).value)}

Fairness ==
    \A p \in Reqs :
        /\ WF_vars(uploadMarkPending(p))
        /\ WF_vars(\E o \in SummaryOutcomes : uploadSummarize(p, o))
        /\ WF_vars(uploadMarkCompleted(p))

SpecLive == Init /\ [][Next]_vars /\ Fairness

\* Submissions one after the other: a submission arrives only when no other is
\* being handled.  The session's transcript starts absent or empty.
NoUploadInFlight == \A q \in Reqs : pc[q] \notin UploadLabels

InitSeq ==
    /\ session \in {[NoSession EXCEPT !.transcript = t] : t \in {Null, <<>>}}
    /\ pc = [p \in Reqs |-> "idle"]
    /\ req = [p \in Reqs |-> NoRequest]
    /\ loc = [p \in Reqs |-> NoLocals]
    /\ res = [p \in Reqs |-> NoResponse]
    /\ call = NoCall

NextSeq ==
    \E p \in Reqs :
        \/ NoUploadInFlight /\ \E r \in UploadRequests : uploadStart(p, r)
        \/ uploadFindSession(p)
        \/ uploadFindGroup(p)
        \/ uploadMarkPending(p)
        \/ \E o \in GeminiOutcomes : uploadSummarize(p, o)
        \/ uploadMarkCompleted(p)
        \/ \E r \in GetRequests : getStart(p, r)
        \/ getFindSession(p)
        \/ getFindGroup(p)

SpecSeq == InitSeq /\ [][NextSeq]_vars

\* Submissions one after the other, the store's calls failing at will.
NextSeqFault == NextSeq \/ \E p \in Reqs : dbReject(p)

SpecSeqFault == InitSeq /\ [][NextSeqFault]_vars

\* getSummary over every stored record, also those this code never writes.
StoredSessions ==
    [transcript : {Null, <<>>, <<"b">>},
     transcriptLang : {Unset, "en"},
     summary : {Null, <<>>, <<"S">>},
     summaryStatus : {Unset, "not_available", "pending", "completed"}]

InitStored ==
    /\ session \in StoredSessions
    /\ pc = [p \in Reqs |-> "idle"]
    /\ req = [p \in Reqs |-> NoRequest]
    /\ loc = [p \in Reqs |-> NoLocals]
    /\ res = [p \in Reqs |-> NoResponse]
    /\ call = NoCall

NextStored ==
    \E p \in Reqs :
        \/ \E r \in GetRequests : getStart(p, r)
        \/ getFindSession(p)
        \/ getFindGroup(p)

SpecStored == InitStored /\ [][NextStored]_vars

\* Requests to POST /transcribe.
NextTranscribe ==
    \E p \in Reqs :
        \/ \E r \in TranscribeRequests : transcribeStart(p, r)
        \/ \E o \in DeepgramOutcomes : transcribeDeepgram(p, o)
        \/ \E o \in SdkOutcomes : transcribeGemini(p, o)

SpecTranscribe == Init /\ [][NextTranscribe]_vars

\* Direct calls of generateExtractiveSummary.
InitSumm ==
    /\ session = NoSession
    /\ pc = [p \in Reqs |-> "idle"]
    /\ req = [p \in Reqs |-> NoRequest]
    /\ loc = [p \in Reqs |-> NoLocals]
    /\ res = [p \in Reqs |-> NoResponse]
    /\ call \in Calls

NextSumm == summReturn

SpecSumm == InitSumm /\ [][NextSumm]_vars

\* Direct calls of summarizeWithGemini.
InitGemini ==
    /\ session = NoSession
    /\ pc = [p \in Reqs |-> "idle"]
    /\ req = [p \in Reqs |-> NoRequest]
    /\ loc = [p \in Reqs |-> NoLocals]
    /\ res = [p \in Reqs |-> NoResponse]
    /\ call \in GeminiCalls

NextGemini == \E apiKey \in BOOLEAN : geminiSend(apiKey)

SpecGemini == InitGemini /\ [][NextGemini]_vars

\* ------------------------------------------------------------------ claims
\* What the steps of request p are, seen from a pair of states.
PendingWrite(p) == pc[p] = "upload_markPending" /\ pc'[p] = "upload_summarize"
CompletedWrite(p) == pc[p] = "upload_markCompleted" /\ pc'[p] = "done"
Summarized(p) == pc[p] = "upload_summarize" /\ pc'[p] # "upload_summarize"

\* The 200 response of uploadTranscript carrying summary s.
Saved(s) == [code |-> 200, message |-> "Transcript saved", summary |-> s]
IsSaved(r) == r.code = 200 /\ DOMAIN r = {"code", "message", "summary"}

\* A text field read as a string: an absent one is the empty string.
AsString(v) == IF v = Null THEN <<>> ELSE v
IsPrefix(a, b) == Len(a) <= Len(b) /\ SubSeq(b, 1, Len(a)) = a

\* The status a getSummary run now would report.
Observed(s) == getSummaryBody(s).status

\* C1: whenever summaryStatus = completed the persisted summary is a non-empty
\* string, after any submissions of valid fragments and any remote outcome.
C1_CompletedHasSummary ==
    session.summaryStatus = "completed" =>
        IsText(session.summary) /\ Len(session.summary) >= 1

\* C2: every value written to transcript has the previously persisted value as
\* a prefix, also when submissions interleave.
C2_TranscriptOnlyGrows ==
    [][IsPrefix(AsString(session.transcript), AsString(session'.transcript))]_vars

\* C3: with submissions one after the other, the observed status goes
\* not_available -> pending -> completed for the first submission and
\* completed -> pending -> completed for every later one; the status changes
\* at no other step and no other value is written.
C3_StatusSequence ==
    [][/\ \A p \in Reqs :
            /\ PendingWrite(p) =>
                  /\ Observed(session) =
                        (IF session.summaryStatus = Unset THEN "not_available" ELSE "completed")
                  /\ Observed(session') = "pending"
            /\ CompletedWrite(p) =>
                  /\ Observed(session) = "pending"
                  /\ Observed(session') = "completed"
       /\ Observed(session') # Observed(session) =>
              \E p \in Reqs : PendingWrite(p) \/ CompletedWrite(p)
       /\ session'.summaryStatus \in {Unset, "pending", "completed"}
       /\ session'.summaryStatus = Unset => session.summaryStatus = Unset
      ]_vars

\* Two submissions have run one after the other and both have been answered.
C3_Witness ==
    /\ IsSaved(res[1]) /\ IsSaved(res[2])
    /\ session.summaryStatus = "completed"

\* C4: when the remote summarizer returned none, the completed-write persists,
\* and the response carries, generateExtractiveSummary(mergedTranscript, 5) of
\* the transcript that submission wrote in its pending-write.
C4_FallbackIsExtractive ==
    [][\A p \in Reqs :
          /\ PendingWrite(p) =>
                /\ session'.transcript = loc[p].mergedTranscript
                /\ loc'[p].mergedTranscript = loc[p].mergedTranscript
          /\ Summarized(p) /\ pc'[p] # "done" =>
                loc'[p].mergedTranscript = loc[p].mergedTranscript
          /\ CompletedWrite(p) /\ loc[p].llmSummary = Null =>
                /\ session'.summary =
                      generateExtractiveSummary(loc[p].mergedTranscript, 5)
                /\ res'[p] = Saved(generateExtractiveSummary(loc[p].mergedTranscript, 5))
      ]_vars

\* A submission answered with the extractive summary of the stored transcript,
\* which no remote text equals.
C4_Witness ==
    \E p \in Reqs :
        /\ IsSaved(res[p])
        /\ res[p].summary = <<"b">>
        /\ session.summary = res[p].summary
        /\ session.transcript = <<"b">>

\* The outcomes of the remote call that are failures.
GeminiFailures ==
    {o \in GeminiOutcomes : o.kind # "body" \/ o.text = Null \/ trim(o.text) = <<>>}

\* C5: on every failure outcome summarizeWithGemini resolves to none and does
\* not reject; the submission goes on, persists status completed and answers
\* 200 with a summary.
C5_RemoteFailureNotSurfaced ==
    [][\A p \in Reqs :
          /\ pc[p] = "upload_summarize" =>
                \A o \in GeminiFailures :
                    summarizeWithGemini(loc[p].mergedTranscript, o)
                        = [raised |-> FALSE, value |-> Null]
          /\ Summarized(p) =>
                /\ pc'[p] = "upload_markCompleted"
                /\ res'[p] = NoResponse
                /\ IsText(loc'[p].summary)
          /\ CompletedWrite(p) /\ loc[p].llmSummary = Null =>
                /\ session'.summaryStatus = "completed"
                /\ res'[p] = Saved(loc[p].summary)
                /\ session'.summary = loc[p].summary
      ]_vars

\* A submission whose remote call failed stands before its completed-write
\* while another one has already been answered with a summary.
C5_Witness ==
    \E p, q \in Reqs :
        /\ pc[p] = "upload_markCompleted"
        /\ loc[p].llmSummary = Null
        /\ IsSaved(res[q])

Rejections == {400, 401, 403, 404}

\* C6: a request answered 401, 400, 404 or 403 has not merged and leaves the
\* session as it was; the session is written only by requests that are
\* authenticated, valid, for the existing session and from a member.
C6_RejectionMutatesNothing ==
    [][/\ \A p \in Reqs :
            /\ pc[p] # "done" /\ pc'[p] = "done" /\ res'[p].code \in Rejections =>
                  /\ session' = session
                  /\ loc[p].mergedTranscript = Null
            /\ pc'[p] \in UploadLabels =>
                  /\ req'[p].user # Unset
                  /\ ValidBody(req'[p])
            /\ pc'[p] \in {"upload_markPending", "upload_summarize", "upload_markCompleted"} =>
                  /\ req'[p].sessionId = SessionId
                  /\ req'[p].user \in memberIds
       /\ session' # session =>
              \E p \in Reqs : PendingWrite(p) \/ CompletedWrite(p)
      ]_vars

\* A request has been refused while the session already holds a transcript.
C6_Witness ==
    \E p \in Reqs :
        /\ res[p].code \in {403, 404}
        /\ session.summaryStatus = "pending"
        /\ session.transcript = <<"b">>

\* A summary exists: the stored summary is a non-empty string.
HasSummary(s) == s.summary # Null /\ s.summary # <<>>

\* C7: getSummary writes nothing and reports the stored summaryStatus when one
\* is set, otherwise "completed" if a summary exists, otherwise "not_available".
C7_GetSummaryStatus ==
    [][\A p \in Reqs :
          /\ pc[p] \in {"idle", "get_findSession", "get_findGroup"} /\ pc'[p] # pc[p] =>
                session' = session
          /\ pc[p] = "get_findSession" /\ pc'[p] = "get_findGroup" =>
                loc'[p].session = session
          /\ pc[p] = "get_findGroup" /\ pc'[p] = "done" /\ res'[p].code = 200 =>
                res'[p].body.status =
                    (IF session.summaryStatus # Unset THEN session.summaryStatus
                     ELSE IF HasSummary(session) THEN "completed"
                     ELSE "not_available")
      ]_vars

\* A record with a summary and no status has been reported as completed.
C7_Witness ==
    \E p \in Reqs :
        /\ res[p].code = 200
        /\ session.summaryStatus = Unset
        /\ res[p].body.status = "completed"

\* C8: the pending-write stores the incoming fragment when the stored
\* transcript is absent or empty and stored + "\n" + incoming otherwise; so a
\* then b, one after the other, leave a + "\n" + b.
C8_Merge ==
    [][\A p \in Reqs :
          PendingWrite(p) =>
              session'.transcript =
                  (IF session.transcript = Null \/ session.transcript = <<>>
                   THEN req[p].transcript
                   ELSE session.transcript \o <<"\n">> \o req[p].transcript)
      ]_vars

\* Two fragments have been submitted one after the other.
C8_Witness ==
    /\ IsSaved(res[1]) /\ IsSaved(res[2])
    /\ session.transcript = <<"b", "\n", ".">>

\* C9: POST /transcribe never answers 200 with a missing or empty summary.
C9_NoEmptySummary ==
    \A p \in Reqs :
        (res[p].code = 200 /\ "summary" \in DOMAIN res[p]) =>
            IsText(res[p].summary) /\ Len(res[p].summary) >= 1

\* C10: generateExtractiveSummary returns "" for every maxSentences <= 0.
C10_NonPositiveIsEmpty ==
    (call.state = "returned" /\ call.maxSentences <= 0) => call.result = <<>>


\* The text without its whitespace.
StripWhitespace(s) == SelectSeq(s, LAMBDA c : c \notin WhiteSpace)

\* The sentences as the claim counts them: the whitespace-collapsed text cut
\* behind each run of terminators, a last piece without terminator included,
\* blank pieces left aside; the whole text when it holds no terminator.
RECURSIVE SplitAtTerminators(_)
SplitAtTerminators(s) ==
    IF s = <<>> THEN <<>>
    ELSE LET body == RunLen(s, Terminators, FALSE)
             term == RunLen(Drop(s, body), Terminators, TRUE)
         IN  <<Take(s, body + term)>> \o SplitAtTerminators(Drop(s, body + term))

ClaimedSentences(text) ==
    IF \A i \in 1..Len(text) : text[i] \notin Terminators THEN <<text>>
    ELSE SelectSeq(SplitAtTerminators(CollapseWhitespace(text)),
                   LAMBDA piece : trim(piece) # <<>>)

\* C11: for a non-empty text of k sentences and maxSentences >= k the summary
\* holds every sentence, in order, and leaves no piece of the text out: apart
\* from whitespace the summary reads as the text does.
C11_AllSentencesKept ==
    (/\ call.state = "returned"
     /\ call.text # <<>>
     /\ call.maxSentences >= Len(ClaimedSentences(call.text)))
        => StripWhitespace(call.result) = StripWhitespace(call.text)


\* The sentences at the positions S, in ascending position, trimmed and joined.
Pick(sentences, S) ==
    LET idx == SelectSeq([i \in 1..Len(sentences) |-> i], LAMBDA i : i \in S)
    IN  JoinSpace([n \in 1..Len(idx) |-> trim(sentences[idx[n]])])

\* C12: for every text and every maxSentences the summary is the selected
\* sentences in strictly ascending original position: it is the join of the
\* sentences at some set of positions, read from the first to the last.
C12_OriginalOrder ==
    call.state = "returned" =>
        LET sentences == Sentences(call.text)
        IN  \E S \in SUBSET (1..Len(sentences)) : call.result = Pick(sentences, S)

\* Two sentences of different score, the second the better one, both selected.
C12_Witness ==
    /\ call.state = "returned"
    /\ call.text = <<"a", ".", "b", ".">>
    /\ call.maxSentences = 2
    /\ call.result = <<"a", ".", " ", "b", ".">>

\* Position of sentence i in the descending-by-score order that keeps equal
\* scores in original order.
Rank(indexed, i) ==
    1 + Cardinality({j \in 1..Len(indexed) : ScoreGreater(indexed[j], indexed[i])})
      + Cardinality({j \in 1..(i - 1) :
                        /\ ~ScoreGreater(indexed[j], indexed[i])
                        /\ ~ScoreGreater(indexed[i], indexed[j])})

C13_TailOfTranscript ==
    call.state = "sent" =>
        LET n == Len(call.text)
        IN  /\ Len(call.result) <= 16000
            /\ n <= 16000 => call.result = call.text
            /\ n > 16000 =>
                /\ Len(call.result) = 16000
                /\ \A k \in 1..16000 : call.result[k] = call.text[n - 16000 + k]
                /\ SubSeq(call.text, 1, 16000) # SubSeq(call.text, n - 16000 + 1, n)
                       => call.result # SubSeq(call.text, 1, 16000)

\* A transcript over the limit whose first characters are not sent.
C13_Witness ==
    /\ call.state = "sent"
    /\ Len(call.text) = 16000 + 2
    /\ call.text[1] = "h"
    /\ call.text[2] = "t"
    /\ call.result[1] = "t"
    /\ Len(call.result) = 16000


\* Request p waits for the remote summary or for its second update.
Summarizing(p) == pc[p] \in {"upload_summarize", "upload_markCompleted"}

\* Request q reads the session record for GET /summary.
Reads(q) == pc[q] = "get_findSession" /\ pc'[q] = "get_findGroup"

\* C14: within one submission the remote summarizer is invoked only after the
\* pending-write, the local fallback is computed only when the remote
\* summarizer has returned no summary, and the completed-write comes only after
\* the summary is determined and stores it; with submissions one after the
\* other, a reader that reads while the submission is summarizing observes
\* status pending.
C14_StepOrder ==
    [][\A p \in Reqs :
        /\ (pc'[p] = "upload_summarize" /\ pc[p] # "upload_summarize") =>
              /\ PendingWrite(p)
              /\ session'.summaryStatus = "pending"
              /\ session'.transcript = loc'[p].mergedTranscript
        /\ pc'[p] = "upload_markCompleted" =>
              /\ pc[p] \in {"upload_summarize", "upload_markCompleted"}
              /\ IF Truthy(loc'[p].llmSummary)
                 THEN loc'[p].summary = loc'[p].llmSummary
                 ELSE loc'[p].summary =
                          generateExtractiveSummary(loc'[p].mergedTranscript, 5)
        /\ Summarized(p) => session' = session
        /\ (session'.summary # session.summary
              \/ (session'.summaryStatus = "completed"
                    /\ session.summaryStatus # "completed")) =>
              \E q \in Reqs : /\ CompletedWrite(q)
                              /\ IsText(loc[q].summary)
                              /\ session'.summary = loc[q].summary
        /\ Summarizing(p) =>
              /\ Observed(session) = "pending"
              /\ \A q \in Reqs : Reads(q) => Observed(loc'[q].session) = "pending"
              /\ \A q \in Reqs :
                    (pc[q] = "get_findGroup" /\ res'[q].code = 200) =>
                        res'[q].body = getSummaryBody(loc[q].session)
    ]_vars

\* A reader has read the record while a submission waits for its summary.
C14_Witness ==
    \E p, q \in Reqs :
        /\ pc[p] = "upload_markCompleted"
        /\ ~Truthy(loc[p].llmSummary)
        /\ pc[q] = "get_findGroup"
        /\ loc[q].session.summaryStatus = "pending"
        /\ loc[q].session.transcript = loc[p].mergedTranscript


\* C15: whenever the status is completed the stored summary is current, it was
\* computed from the transcript stored at that moment, also with interleaved
\* submissions: the write that sets completed stores a summary of the
\* transcript that is in the record.
C15_SummaryIsCurrent ==
    [][\A p \in Reqs :
        CompletedWrite(p) =>
            /\ session'.summaryStatus = "completed"
            /\ session'.summary = loc[p].summary
            /\ session'.transcript = loc[p].mergedTranscript
    ]_vars

\* C16: in every reachable state, overlapping submissions included, a
\* submission that has done its pending-write and not yet its completed-write
\* means the stored status is pending.
C16_InFlightIsPending ==
    (\E p \in Reqs : Summarizing(p)) => session.summaryStatus = "pending"


\* C17: without a persistence fault every submission that has written status
\* pending eventually writes status completed; once no submission of the
\* session is in flight the status, if one was written, is completed, and it
\* stays completed until a next submission's pending-write.
C17_EventuallyCompleted ==
    /\ \A p \in Reqs :
          (pc[p] = "upload_summarize") ~> (pc[p] = "done" /\ IsSaved(res[p]))
    /\ [](((\A p \in Reqs : pc[p] \notin UploadLabels)
             /\ session.summaryStatus # Unset)
            => session.summaryStatus = "completed")
    /\ [][/\ \A p \in Reqs :
                (pc[p] = "upload_summarize" /\ pc'[p] = "done") => FALSE
          /\ \A p \in Reqs :
                (pc[p] = "upload_markCompleted" /\ pc'[p] # pc[p]) =>
                    /\ IsSaved(res'[p])
                    /\ session'.summaryStatus = "completed"
          /\ (session.summaryStatus = "completed"
                /\ session'.summaryStatus # "completed") =>
                    \E p \in Reqs : PendingWrite(p)
        ]_vars

\* Two submissions have overlapped, both are answered with their summary and
\* the status is completed.
C17_Witness ==
    /\ \A p \in Reqs : pc[p] = "done" /\ IsSaved(res[p])
    /\ session.summaryStatus = "completed"
    /\ Len(session.transcript) = 1


\* The second update of request p rejects.
CompletedWriteFails(p) ==
    pc[p] = "upload_markCompleted" /\ pc'[p] = "done" /\ res'[p].code = 500

C20_DisjointWrites ==
    [][\A p \in Reqs :
        /\ PendingWrite(p) =>
              /\ session'.summary = session.summary
              /\ getSummaryBody(session').summary = OrNull(session.summary)
              /\ getSummaryBody(session').status = "pending"
              /\ getSummaryBody(session').transcript = loc[p].mergedTranscript
        /\ CompletedWrite(p) =>
              /\ session'.transcript = session.transcript
              /\ session'.transcriptLang = session.transcriptLang
              /\ session'.summary = loc[p].summary
    ]_vars

\* A second submission has done its pending-write: the summary of the first is
\* still stored, next to status pending and the extended transcript.
C20_Witness ==
    /\ \E p \in Reqs : pc[p] = "upload_summarize"
    /\ \E p \in Reqs : pc[p] = "done" /\ res[p] = Saved(<<"S">>)
    /\ session.summaryStatus = "pending"
    /\ session.summary = <<"S">>
    /\ Len(session.transcript) = 3
    /\ getSummaryBody(session).summary = <<"S">>

====
